---- MODULE Spec2Model ----
(***************************************************************************)
(* A model of rename_files.py: main() collects a directory, a find token   *)
(* and a replace token, asks for confirmation, and rename_files() walks    *)
(* the directory top-down renaming every file whose name contains the find *)
(* token.                                                                  *)
(*                                                                         *)
(* Strings are sequences of one-character strings.  The file system is a   *)
(* fixed set of directories ("/", the target "/t" and its subdirectory     *)
(* "/t/a") and a set of files, each with an identity, a containing         *)
(* directory and a name.  os.rename follows the documented behaviour of    *)
(* the Python call: on Unix an existing destination file is replaced       *)
(* silently, on Windows FileExistsError is raised; which of the two the    *)
(* program runs on is chosen in Init (variable posix).                     *)
(***************************************************************************)
EXTENDS Integers, Sequences, FiniteSets, TLC

VARIABLES pc, confirm, target, find, replace, posix, fs, fs0,
          stack, root, files, count, out, seen, tname, thist

vars == <<pc, confirm, target, find, replace, posix, fs, fs0,
          stack, root, files, count, out, seen, tname, thist>>

-----------------------------------------------------------------------------
(* Bounds of the model *)

\* most renames of one run that fail for a reason outside the tree
\* (permission denied)
MaxDenied == 1
\* longest find token entered
MaxFindLen == 2
\* longest replace token entered
MaxReplLen == 2
\* longest name the name transformation is applied to in SpecT
MaxTLen == 4
\* most applications of the name transformation to one name in SpecT
MaxApply == 2

\* s is the set of strings over chars of length lo..hi
Strs(chars, lo, hi) == UNION {[1..k -> chars] : k \in lo..hi}

-----------------------------------------------------------------------------
(* String operations of the program *)

\* s[i..] of Python, 1-based
Drop(s, n) == SubSeq(s, n + 1, Len(s))

StartsWith(s, p) == Len(p) <= Len(s) /\ SubSeq(s, 1, Len(p)) = p

\* `find_char in filename`: substring test; the empty string is in every string
Contains(s, f) == \E i \in 1..(Len(s) + 1) : StartsWith(Drop(s, i - 1), f)

RECURSIVE Interleave(_, _)
\* str.replace with an empty pattern: r before every character and at the end
Interleave(s, r) ==
    IF s = <<>> THEN r ELSE r \o <<Head(s)>> \o Interleave(Tail(s), r)

RECURSIVE ReplaceScan(_, _, _)
\* str.replace with a non-empty pattern: leftmost match first, then on after it
ReplaceScan(s, f, r) ==
    IF Len(s) < Len(f) THEN s
    ELSE IF StartsWith(s, f) THEN r \o ReplaceScan(Drop(s, Len(f)), f, r)
    ELSE <<Head(s)>> \o ReplaceScan(Tail(s), f, r)

\* a replace that stops after the first occurrence (str.replace(f, r, 1))
ReplaceFirstOnly(s, f, r) ==
    IF f = <<>> \/ ~ Contains(s, f) THEN s
    ELSE LET i == CHOOSE k \in 1..Len(s) :
                     /\ StartsWith(Drop(s, k - 1), f)
                     /\ \A j \in 1..(k - 1) : ~ StartsWith(Drop(s, j - 1), f)
         IN SubSeq(s, 1, i - 1) \o r \o Drop(s, i - 1 + Len(f))

\* filename.replace(find_char, replace_char)
Replace(s, f, r) == IF f = <<>> THEN Interleave(s, r) ELSE ReplaceScan(s, f, r)

-----------------------------------------------------------------------------
(* The file system *)

DirRoot == "/"
\* the directory the user names (os.path.abspath(target_path))
Target == "/t"
\* a subdirectory of the target, named "a"
Sub == "/t/a"
\* a path that names nothing
Missing == "/x"
\* the result of walking a path through a name that is no directory
NoDir == "enoent"
\* where a file that was replaced by another file is
Gone == "gone"

Dirs == {DirRoot, Target, Sub}

DirTable == {[path |-> Target, parent |-> DirRoot, name |-> <<"t">>],
             [path |-> Sub, parent |-> Target, name |-> <<"a">>]}

Parent(d) == IF d = DirRoot THEN DirRoot
             ELSE (CHOOSE e \in DirTable : e.path = d).parent

\* the subdirectories of d
SubDirs(d) == {e.path : e \in {x \in DirTable : x.parent = d}}

\* the directory entries of d that are directories, by name
DirNamed(d, n) == {e.path : e \in {x \in DirTable : x.parent = d /\ x.name = n}}

\* the two files of the tree
Files == {"f1", "f2"}

NoFile == [dir |-> Gone, name |-> <<>>]

\* the files of f that are at name n of directory d
FileAt(f, d, n) == {x \in Files : f[x].dir = d /\ f[x].name = n}

\* the names of the regular files in directory d
FileNames(f, d) == {f[x].name : x \in {y \in Files : f[y].dir = d}}

\* a test that takes every path for a directory
IsDirAlways(p) == TRUE

\* os.path.isdir
IsDir(p) == p \in Dirs

RECURSIVE Split(_)
\* the components of a path, separated by "/"
Split(s) ==
    IF ~ Contains(s, <<"/">>) THEN <<s>>
    ELSE LET i == CHOOSE k \in 1..Len(s) :
                     s[k] = "/" /\ \A j \in 1..(k - 1) : s[j] # "/"
         IN <<SubSeq(s, 1, i - 1)>> \o Split(Drop(s, i))

\* one step of path resolution from directory d
Step(d, c) ==
    IF d = NoDir THEN NoDir
    ELSE IF c = <<>> \/ c = <<".">> THEN d
    ELSE IF c = <<".", ".">> THEN Parent(d)
    ELSE IF DirNamed(d, c) # {} THEN CHOOSE x \in DirNamed(d, c) : TRUE
    ELSE NoDir

RECURSIVE Resolve(_, _)
\* the directory reached from d through the components cs
Resolve(d, cs) == IF cs = <<>> THEN d ELSE Resolve(Step(d, Head(cs)), Tail(cs))

\* os.path.join(root, name): a name that starts with "/" is an absolute path
JoinStart(d, n) == IF n # <<>> /\ Head(n) = "/" THEN DirRoot ELSE d

\* the directory that os.path.join(root, name) names the entry of
PathDir(d, n) ==
    LET cs == Split(n) IN Resolve(JoinStart(d, n), SubSeq(cs, 1, Len(cs) - 1))

\* the entry name that os.path.join(root, name) ends with
PathLeaf(n) == LET cs == Split(n) IN cs[Len(cs)]

\* os.rename(os.path.join(d, old), os.path.join(d, new)) on file system f:
\* the error it raises ("" when it raises none) and the file system after it
OsRename(f, d, old, new, unix) ==
    LET src == FileAt(f, d, old)
        nd == PathDir(d, new)
        nn == PathLeaf(new)
        dst == FileAt(f, nd, nn)
    IN  IF src = {} THEN [err |-> "ENOENT", fs |-> f]
        ELSE IF nd = NoDir THEN [err |-> "ENOENT", fs |-> f]
        ELSE IF nn \in {<<>>, <<".">>, <<".", ".">>} THEN [err |-> "ENOTDIR", fs |-> f]
        ELSE IF DirNamed(nd, nn) # {} THEN [err |-> "EISDIR", fs |-> f]
        ELSE LET x == CHOOSE y \in src : TRUE
             IN  IF dst = {} \/ dst = {x}
                 THEN [err |-> "", fs |-> [f EXCEPT ![x] = [dir |-> nd, name |-> nn]]]
                 ELSE IF unix
                 THEN [err |-> "",
                       fs |-> [y \in Files |->
                                 IF y = x THEN [dir |-> nd, name |-> nn]
                                 ELSE IF y \in dst THEN NoFile ELSE f[y]]]
                 ELSE [err |-> "EEXIST", fs |-> f]

-----------------------------------------------------------------------------
(* What the program prints *)

Event(k, f, d, o, n, e, c) ==
    [kind |-> k, file |-> f, dir |-> d, old |-> o, new |-> n, err |-> e, count |-> c]

\* print("Operation cancelled.")
Cancelled == Event("Cancelled", "-", "-", <<>>, <<>>, "", 0)
\* print(f"Error: Directory '{target_dir}' does not exist.")
DirError(d) == Event("NoDirectory", "-", d, <<>>, <<>>, "", 0)
\* print(f"Renamed: '{filename}' -> '{new_filename}'"); file is the file renamed
Renamed(f, d, o, n) == Event("Renamed", f, d, o, n, "", 0)
\* print(f"Error renaming '{filename}': {e}"); file is the file it was tried on
RenameError(f, d, o, e) == Event("Error", f, d, o, <<>>, e, 0)
\* print(f"Finished. Renamed {count} files.")
Finished(c) == Event("Finished", "-", "-", <<>>, <<>>, "", c)

-----------------------------------------------------------------------------
(* The inputs *)

NameChars == {"a", "_"}
FindChars == {"_"}
ReplChars == {"a", "_", "/"}

\* the file names of the tree at the start: one or two characters, no "/"
Names == [1..1 -> NameChars] \cup [1..2 -> NameChars]
FindTokens == Strs(FindChars, 0, MaxFindLen)
ReplTokens == Strs(ReplChars, 0, MaxReplLen)

\* what the user may type at "Proceed? (y/n): "
Answers == {<<"y">>, <<"Y">>, <<"n">>, <<>>}

\* an order on names, to start each tree once: f1 before f2
Code(n) == IF n = <<>> THEN 0
           ELSE LET D(c) == IF c = "a" THEN 1 ELSE 2
                    RECURSIVE V(_)
                    V(s) == IF s = <<>> THEN 0 ELSE 3 * V(SubSeq(s, 1, Len(s) - 1)) + D(s[Len(s)])
                IN V(n)

\* a tree: two files, each in the target or in its subdirectory, no two
\* entries of a directory with one name
Trees ==
    {t \in [Files -> [dir : {Target, Sub}, name : Names]] :
        /\ \A x \in Files : DirNamed(t[x].dir, t[x].name) = {}
        /\ \/ t["f1"].dir = Target /\ t["f2"].dir = Sub
           \/ t["f1"].dir = t["f2"].dir /\ Code(t["f1"].name) < Code(t["f2"].name)}

\* str.lower() on the characters an answer is made of
LowerChar(c) == IF c = "Y" THEN "y" ELSE IF c = "N" THEN "n" ELSE c
Lower(s) == [i \in 1..Len(s) |-> LowerChar(s[i])]

\* the orders a directory listing may come in
Orders(S) == {q \in [1..Cardinality(S) -> S] : \A i, j \in 1..Cardinality(S) : q[i] = q[j] => i = j}

\* the elements of q that satisfy a test, in order
RECURSIVE Candidates(_, _, _)
Candidates(q, d, f) ==
    IF q = <<>> THEN <<>>
    ELSE (IF Contains(Head(q), f) THEN <<[dir |-> d, name |-> Head(q)]>> ELSE <<>>)
         \o Candidates(Tail(q), d, f)

\* the sequence of the elements of a set of at most one directory
SeqOf(S) == IF S = {} THEN <<>> ELSE <<CHOOSE x \in S : TRUE>>

-----------------------------------------------------------------------------
(* main and rename_files *)

Init ==
    /\ pc = "confirm"
    /\ confirm = <<>>
    /\ target \in {Target, Missing}
    /\ find \in FindTokens
    /\ replace \in ReplTokens
    /\ posix \in BOOLEAN
    /\ fs \in Trees
    /\ fs0 = fs
    /\ stack = <<>>
    /\ root = "-"
    /\ files = <<>>
    /\ count = 0
    /\ out = <<>>
    /\ seen = <<>>
    /\ tname = <<>>
    /\ thist = <<>>

\* input("\nProceed? (y/n): ") returns what the user typed
ReadAnswer ==
    /\ pc = "confirm"
    /\ \E ans \in Answers : confirm' = ans
    /\ pc' = "answered"
    /\ UNCHANGED <<target, find, replace, posix, fs, fs0, stack, root, files,
                   count, out, seen, tname, thist>>

\* a test that takes everything but "n" for a yes
ProceedsUnlessNo(c) == c # <<"n">>

\* if confirm != 'y': the test main proceeds on
Proceeds(c) == c = <<"y">>

\* confirm = (the answer).lower(); if confirm != 'y': print cancelled; return
Decide ==
    /\ pc = "answered"
    /\ confirm' = Lower(confirm)
    /\ IF Proceeds(Lower(confirm))
       THEN pc' = "check" /\ out' = out
       ELSE pc' = "cancelled" /\ out' = Append(out, Cancelled)
    /\ UNCHANGED <<target, find, replace, posix, fs, fs0, stack, root, files,
                   count, seen, tname, thist>>

\* if not os.path.isdir(target_dir): print error; return
CheckDirFails ==
    /\ pc = "check"
    /\ ~ IsDir(target)
    /\ out' = Append(out, DirError(target))
    /\ pc' = "done"
    /\ UNCHANGED <<confirm, target, find, replace, posix, fs, fs0, stack, root,
                   files, count, seen, tname, thist>>

\* count = 0; os.walk(target_dir) starts at the target
StartWalk ==
    /\ pc = "check"
    /\ IsDir(target)
    /\ count' = 0
    /\ stack' = <<target>>
    /\ pc' = "walk"
    /\ UNCHANGED <<confirm, target, find, replace, posix, fs, fs0, root, files,
                   out, seen, tname, thist>>

\* os.walk yields the next directory: its files as listed now, in any order;
\* its subdirectories are walked after it
Scan ==
    /\ pc = "walk"
    /\ files = <<>>
    /\ stack # <<>>
    /\ LET top == stack[Len(stack)]
       IN  /\ root' = top
           /\ stack' = SubSeq(stack, 1, Len(stack) - 1) \o SeqOf(SubDirs(top))
           /\ \E q \in Orders(FileNames(fs, top)) :
                /\ files' = q
                /\ seen' = seen \o Candidates(q, top, find)
    /\ UNCHANGED <<pc, confirm, target, find, replace, posix, fs, fs0, count, out,
                   tname, thist>>

\* if find_char in filename: false
Skip ==
    /\ pc = "walk"
    /\ files # <<>>
    /\ ~ Contains(Head(files), find)
    /\ files' = Tail(files)
    /\ UNCHANGED <<pc, confirm, target, find, replace, posix, fs, fs0, stack, root,
                   count, out, seen, tname, thist>>

\* a failure that ends the loop over the directory's files
AfterErrorAbort(rest) == <<>>

\* the files still to process after a rename raised: the loop goes on
AfterError(rest) == rest

\* the renames so far that failed with permission denied
Denied(o) == Cardinality({i \in 1..Len(o) : o[i].kind = "Error" /\ o[i].err = "EACCES"})

\* the file a rename of name n in directory d is tried on
Tried(d, n) == IF FileAt(fs, d, n) = {} THEN "-" ELSE CHOOSE x \in FileAt(fs, d, n) : TRUE

\* os.rename returned: print Renamed, count += 1
RenameOk ==
    /\ pc = "walk"
    /\ files # <<>>
    /\ Contains(Head(files), find)
    /\ LET filename == Head(files)
           new_filename == Replace(filename, find, replace)
           r == OsRename(fs, root, filename, new_filename, posix)
       IN  /\ r.err = ""
           /\ fs' = r.fs
           /\ out' = Append(out, Renamed(Tried(root, filename), root, filename, new_filename))
           /\ count' = count + 1
    /\ files' = Tail(files)
    /\ UNCHANGED <<pc, confirm, target, find, replace, posix, fs0, stack, root,
                   seen, tname, thist>>

\* os.rename raised (what the file system refuses, or permission denied):
\* print the error, go on with the next file
RenameFails ==
    /\ pc = "walk"
    /\ files # <<>>
    /\ Contains(Head(files), find)
    /\ LET filename == Head(files)
           new_filename == Replace(filename, find, replace)
           r == OsRename(fs, root, filename, new_filename, posix)
       IN  \E e \in ({r.err} \cup (IF Denied(out) < MaxDenied THEN {"EACCES"} ELSE {})) \ {""} :
              out' = Append(out, RenameError(Tried(root, filename), root, filename, e))
    /\ files' = AfterError(Tail(files))
    /\ UNCHANGED <<pc, confirm, target, find, replace, posix, fs, fs0, stack, root,
                   count, seen, tname, thist>>

\* the walk is over: print the count
Finish ==
    /\ pc = "walk"
    /\ files = <<>>
    /\ stack = <<>>
    /\ out' = Append(out, Finished(count))
    /\ pc' = "done"
    /\ UNCHANGED <<confirm, target, find, replace, posix, fs, fs0, stack, root,
                   files, count, seen, tname, thist>>

Next ==
    \/ ReadAnswer
    \/ Decide
    \/ CheckDirFails
    \/ StartWalk
    \/ Scan
    \/ Skip
    \/ RenameOk
    \/ RenameFails
    \/ Finish

Spec == Init /\ [][Next]_vars

-----------------------------------------------------------------------------
(* The name transformation on its own: filename.replace(find, replace)     *)
(* applied to a name, and again to its result                              *)

TChars == {"a", "b"}

InitT ==
    /\ pc = "t"
    /\ confirm = <<>>
    /\ target = Target
    /\ find \in Strs(TChars, 0, MaxFindLen)
    /\ replace \in Strs(TChars, 0, MaxReplLen)
    /\ posix = FALSE
    /\ fs = [x \in Files |-> NoFile]
    /\ fs0 = fs
    /\ stack = <<>>
    /\ root = "-"
    /\ files = <<>>
    /\ count = 0
    /\ out = <<>>
    /\ seen = <<>>
    /\ tname \in Strs(TChars, 0, MaxTLen)
    /\ thist = <<>>

\* new_filename = filename.replace(find_char, replace_char); thist keeps the
\* names it was applied to
ApplyT ==
    /\ pc = "t"
    /\ Len(thist) < MaxApply
    /\ thist' = Append(thist, tname)
    /\ tname' = Replace(tname, find, replace)
    /\ UNCHANGED <<pc, confirm, target, find, replace, posix, fs, fs0, stack,
                   root, files, count, out, seen>>

NextT == ApplyT

SpecT == InitT /\ [][NextT]_vars

-----------------------------------------------------------------------------
(* Properties *)

\* the per-file events printed so far, in order
PerFile == SelectSeq(out, LAMBDA e : e.kind \in {"Renamed", "Error"})

\* how many events of kind k are about file x
EventsOn(x, k) == Cardinality({i \in 1..Len(out) : out[i].kind \in k /\ out[i].file = x})

\* how many events of kind k were printed
EventsOf(k) == Cardinality({i \in 1..Len(out) : out[i].kind = k})

\* a run of rename_files on an existing directory that has returned
Walked == pc = "done" /\ target = Target

\* C1: after a run, every file whose name does not contain the find token
\* is the same file under the same name in the same directory.
C1_Untouched ==
    Walked => \A x \in Files : ~ Contains(fs0[x].name, find) => fs[x] = fs0[x]

\* C2: after a run, every file whose name F contained the find token and
\* whose rename succeeded exists under the name F with every occurrence of
\* the find token replaced by the replace token.
C2_RenamedToReplaced ==
    Walked =>
        \A x \in Files :
            (Contains(fs0[x].name, find) /\ EventsOn(x, {"Renamed"}) > 0)
                => fs[x].name = Replace(fs0[x].name, find, replace)

\* C3: a rename that fails is printed as an error and does not end the run:
\* the per-file events are for the candidates in the order of the traversal,
\* none is left out when the run ends, and the count printed at the end is
\* the number of candidates less the failed ones.
C3_FailureIsolated ==
    /\ Len(PerFile) <= Len(seen)
    /\ \A i \in 1..Len(PerFile) :
           PerFile[i].dir = seen[i].dir /\ PerFile[i].old = seen[i].name
    /\ count = Len(PerFile) - EventsOf("Error")
    /\ Walked =>
          /\ Len(PerFile) = Len(seen)
          /\ out[Len(out)] = Finished(Len(seen) - EventsOf("Error"))

\* a run in which a rename failed on a name collision and a later candidate
\* was renamed, with the count printed at the end
C3_Witness ==
    /\ Walked
    /\ \E i, j \in 1..Len(out) :
          /\ i < j
          /\ out[i].kind = "Error" /\ out[i].err = "EEXIST"
          /\ out[j].kind = "Renamed"
    /\ out[Len(out)].kind = "Finished" /\ out[Len(out)].count = count

\* C4: main goes on to rename_files exactly when the answer is y or Y; on
\* any other answer it prints the cancelled outcome and no file is renamed.
C4_OnlyOnYes ==
    /\ [][pc = "answered" =>
             /\ (pc' = "check") <=> (confirm \in {<<"y">>, <<"Y">>})
             /\ (pc' = "cancelled") <=> (confirm \notin {<<"y">>, <<"Y">>})]_vars
    /\ [](pc \in {"check", "walk", "done"} => confirm = <<"y">>)
    /\ [](pc \in {"confirm", "answered", "cancelled"} => fs = fs0)
    /\ [](pc = "cancelled" => out = <<Cancelled>>)

\* the answer was n: cancelled, nothing renamed
C4_Witness ==
    pc = "cancelled" /\ confirm = <<"n">> /\ out = <<Cancelled>> /\ fs = fs0

\* C5: when the target is no directory, rename_files prints the directory
\* error, renames nothing and prints no count.
C5_NoDirectory ==
    target = Missing =>
        /\ pc # "walk"
        /\ fs = fs0
        /\ pc = "done" => out = <<DirError(target)>>
        /\ \A i \in 1..Len(out) : out[i].kind \in {"Cancelled", "NoDirectory"}

\* rename_files has returned from a target that does not exist
C5_Witness ==
    pc = "done" /\ target = Missing /\ out = <<DirError(Missing)>> /\ fs = fs0

\* C6: no rename moves a file to another directory.
C6_SameParent ==
    [][\A x \in Files :
          (fs[x].dir # Gone /\ fs'[x].dir # Gone) => fs'[x].dir = fs[x].dir]_vars

\* C7: applying the name transformation again changes nothing, whenever the
\* find token is not empty and is not a substring of the replace token.
C7_IdempotentNoSubstring ==
    (Len(thist) >= 2 /\ find # <<>> /\ ~ Contains(replace, find))
        => tname = thist[2]

\* C7, amended: applying the name transformation again changes nothing,
\* whenever the find token is a single character that does not occur in
\* the replace token.
C7_IdempotentSingleChar ==
    (Len(thist) >= 2 /\ Len(find) = 1 /\ ~ Contains(replace, find))
        => tname = thist[2]

\* a name with two occurrences of a one-character find token, transformed
\* twice
C7_Witness ==
    /\ pc = "t"
    /\ Len(thist) = 2
    /\ find = <<"a">> /\ replace = <<"b", "b">>
    /\ thist[1] = <<"a", "b", "a">>
    /\ thist[2] = <<"b", "b", "b", "b", "b">>
    /\ tname = thist[2]

\* C8: with an empty find token no file is a candidate and no file is
\* renamed.
C8_EmptyFindRejected ==
    find = <<>> => (seen = <<>> /\ PerFile = <<>> /\ fs = fs0)

\* C9: after a run on an existing directory every file that was a candidate
\* at the start has exactly one per-file event, and the count printed last
\* is the number of Renamed events.
C9_OneEventEach ==
    Walked =>
        /\ \A x \in Files :
               Contains(fs0[x].name, find) => EventsOn(x, {"Renamed", "Error"}) = 1
        /\ out[Len(out)] = Finished(EventsOf("Renamed"))
        /\ EventsOf("Finished") = 1

\* C10: no file of the tree is ever replaced by another.
C10_NoFileDestroyed ==
    \A x \in Files : fs[x].dir # Gone

====
